---- MODULE Spec2Model ----
(***************************************************************************)
(* A model of pion's HTTPServer request dispatch (src/src/http_server.cpp): *)
(* the resource registry (m_resources) with its longest-prefix lookup, the  *)
(* redirect table (m_redirects), the mutex m_resource_mutex that guards     *)
(* them, and HTTPServer::handleRequest executed step by step; and of the    *)
(* HTTPReader that handleConnection starts (declared in reader.hpp), whose *)
(* read / parse / timer cycle ends in the one call of handleRequest.        *)
(*                                                                         *)
(* std::string values are sequences of character codes, so that prefix     *)
(* tests, indexing and the ordering of std::map keys are computed as the    *)
(* code computes them.                                                      *)
(***************************************************************************)
EXTENDS Integers, Sequences, FiniteSets, TLC

VARIABLES
    m_resources,        \* ResourceMap: std::map<std::string, RequestHandler>
    m_redirects,        \* RedirectMap: std::map<std::string, std::string>
    m_auth_ptr,         \* TRUE when an authenticator is registered
    mutexOwner,         \* m_resource_mutex: "none" or the thread that holds it
    prevOp, lastOp,     \* the last two completed add/remove/addRedirect calls
    findArg, findRes,   \* the last findRequestHandler call made since lastOp
    pc,                 \* position of the dispatching thread in handleRequest
    request,            \* http_request: resource, original resource, validity
    ec,                 \* the error_code passed to handleRequest
    conn,               \* tcp_conn: open flag, lifecycle, finish() calls
    resource_requested, \* local of handleRequest (line 57)
    it,                 \* local iterator into m_redirects (lines 60, 70)
    num_redirects,      \* local counter of handleRequest (line 61)
    request_handler,    \* local RequestHandler of handleRequest (line 88)
    thrown,             \* the exception in flight out of the handler, if any
    events,             \* what handleRequest did, in order
    responses,          \* the responses sent through an HTTPResponseWriter
    admin,              \* per thread: the add/remove/addRedirect call in progress
    adminLeft,          \* add/remove/addRedirect calls still to be issued
    accessing,          \* per thread: the table it is reading or writing now
    reader              \* the HTTPRequestReader made by handleConnection

regVars  == <<m_resources, m_redirects>>
histVars == <<prevOp, lastOp, findArg, findRes>>
reqVars  == <<pc, request, ec, conn, resource_requested, it, num_redirects,
              request_handler, thrown, events, responses>>
concVars == <<mutexOwner, admin, adminLeft, accessing>>
vars     == <<regVars, histVars, reqVars, concVars, m_auth_ptr, reader>>

----------------------------------------------------------------------------
(* std::string                                                             *)

Slash == 47

\* String literals of the model: 'a' = 97, 'b' = 98, 'c' = 99, 'x' = 120,
\* 'y' = 121, 'z' = 122.
S_empty  == <<>>
S_root   == <<Slash>>
S_a      == <<Slash, 97>>
S_a_     == <<Slash, 97, Slash>>
S_a__    == <<Slash, 97, Slash, Slash>>
S_ab     == <<Slash, 97, 98>>
S_a_b    == <<Slash, 97, Slash, 98>>
S_a_b_c  == <<Slash, 97, Slash, 98, Slash, 99>>
S_a_bb   == <<Slash, 97, Slash, 98, 98>>
S_a__b   == <<Slash, 97, Slash, Slash, 98>>
S_b      == <<98>>
S_x      == <<Slash, 120>>
S_x_     == <<Slash, 120, Slash>>
S_y      == <<Slash, 121>>
S_z_     == <<Slash, 122, Slash>>
S_z      == <<Slash, 122>>

Min(a, b) == IF a < b THEN a ELSE b

\* std::string::operator< : lexicographic on the character codes.
RECURSIVE StrLess(_, _)
StrLess(s, t) ==
    IF t = <<>> THEN FALSE
    ELSE IF s = <<>> THEN TRUE
    ELSE IF Head(s) # Head(t) THEN Head(s) < Head(t)
    ELSE StrLess(Tail(s), Tail(t))

\* s.compare(pos, len, t): compares s.substr(pos, len) with t; 0 when equal.
Compare(s, pos, len, t) ==
    LET sub == SubSeq(s, pos + 1, Min(Len(s), pos + len))
    IN  IF sub = t THEN 0 ELSE IF StrLess(sub, t) THEN -1 ELSE 1

\* HTTPServer::stripTrailingSlash (server.hpp): one trailing '/' is removed.
stripTrailingSlash(str) ==
    IF str # <<>> /\ str[Len(str)] = Slash
    THEN SubSeq(str, 1, Len(str) - 1)
    ELSE str

----------------------------------------------------------------------------
(* std::map                                                                *)

EmptyMap == <<>>

\* The keys of a std::map<std::string, T> in iteration order.
RECURSIVE SortedKeys(_)
SortedKeys(S) ==
    IF S = {} THEN <<>>
    ELSE LET first == CHOOSE x \in S : \A y \in S \ {x} : StrLess(x, y)
         IN  <<first>> \o SortedKeys(S \ {first})

\* std::map::insert: adds the pair unless the key is already present.
MapInsert(m, k, v) == IF k \in DOMAIN m THEN m ELSE (k :> v) @@ m

\* std::map::erase(key).
MapErase(m, k) == [x \in DOMAIN m \ {k} |-> m[x]]

\* std::map::upper_bound: position (1-based) of the first key greater than k,
\* Len(keys) + 1 for end().
UpperBound(keys, k) ==
    LET after == {i \in 1..Len(keys) : StrLess(k, keys[i])}
    IN  IF after = {} THEN Len(keys) + 1
        ELSE CHOOSE i \in after : \A j \in after : i <= j

----------------------------------------------------------------------------
(* HTTPServer::findRequestHandler, lines 120-144                           *)

NoHandler == "none"

\* KeyAccepts without the test of line 136: any byte-wise prefix is accepted.
KeyAccepts_PrefixOnly(key, resource) ==
    key = <<>> \/ Compare(resource, 0, Len(key), key) = 0

\* Lines 133 and 136: the test applied to one registry key.
KeyAccepts(key, resource) ==
    /\ (key = <<>> \/ Compare(resource, 0, Len(key), key) = 0)
    /\ (Len(resource) = Len(key) \/ resource[Len(key) + 1] = Slash)

\* Lines 130-141: the descending walk from iterator position i.
RECURSIVE FindWalk(_, _, _, _)
FindWalk(resources, keys, i, resource) ==
    IF i = 1 THEN [found |-> FALSE, handler |-> NoHandler]
    ELSE IF KeyAccepts(keys[i - 1], resource)
         THEN [found |-> TRUE, handler |-> resources[keys[i - 1]]]
         ELSE FindWalk(resources, keys, i - 1, resource)

\* Lines 125-143 (the body run under the scoped lock).
FindRequestHandler(resources, resource) ==
    IF DOMAIN resources = {} THEN [found |-> FALSE, handler |-> NoHandler]
    ELSE LET keys == SortedKeys(DOMAIN resources)
         IN  FindWalk(resources, keys, UpperBound(keys, resource), resource)

----------------------------------------------------------------------------
(* addResource, removeResource, addRedirect: lines 146-171                 *)

\* Lines 150-151.
AddResourceBody(resources, resource, handler) ==
    MapInsert(resources, stripTrailingSlash(resource), handler)

\* RemoveResourceBody that erases the argument as given, not the clean key.
RemoveResourceBody_Raw(resources, resource) ==
    MapErase(resources, resource)

\* Lines 158-159.
RemoveResourceBody(resources, resource) ==
    MapErase(resources, stripTrailingSlash(resource))

\* AddRedirectBody written with operator[] instead of insert: the new target
\* overwrites the old one.
AddRedirectBody_Overwrites(redirects, requested_resource, new_resource) ==
    (stripTrailingSlash(requested_resource) :> stripTrailingSlash(new_resource))
        @@ redirects

\* Lines 167-169.
AddRedirectBody(redirects, requested_resource, new_resource) ==
    MapInsert(redirects, stripTrailingSlash(requested_resource),
              stripTrailingSlash(new_resource))

----------------------------------------------------------------------------
(* Values shared by the specifications                                     *)

Handlers == {"h1", "h2"}

NoOp == [op |-> "none", key |-> <<>>, handler |-> NoHandler, target |-> <<>>]
NoFind == [called |-> FALSE, found |-> FALSE, handler |-> NoHandler]
NoIterator == [end |-> TRUE, first |-> <<>>, second |-> <<>>]
NoException == [type |-> "none", what |-> "none"]
NoAdmin == [op |-> "none", step |-> "idle", a1 |-> <<>>, a2 |-> <<>>,
            handler |-> NoHandler]
NoRequest == [resource |-> <<>>, original_resource |-> <<>>, valid |-> TRUE]
NoError == [value |-> 0, category |-> "system"]
Threads == {"D", "A"}

RegInit ==
    /\ m_resources = EmptyMap
    /\ m_redirects = EmptyMap

HistInit ==
    /\ prevOp = NoOp
    /\ lastOp = NoOp
    /\ findArg = <<>>
    /\ findRes = NoFind

ReqInit ==
    /\ pc = "idle"
    /\ request = NoRequest
    /\ ec = NoError
    /\ conn = [open |-> TRUE, lifecycle |-> "KEEPALIVE", finished |-> 0]
    /\ resource_requested = <<>>
    /\ it = NoIterator
    /\ num_redirects = 0
    /\ request_handler = NoHandler
    /\ thrown = NoException
    /\ events = <<>>
    /\ responses = <<>>

\* No reader exists before handleConnection.
NoReader == [created |-> FALSE, state |-> "IDLE", outcome |-> "none",
             read |-> "none", timer |-> "off", timer_fired |-> FALSE,
             consumed |-> FALSE, reads |-> 0, callbacks |-> 0,
             late_ignored |-> FALSE]

ReaderInit == reader = NoReader

ConcInit ==
    /\ mutexOwner = "none"
    /\ admin = [t \in Threads |-> NoAdmin]
    /\ accessing = [t \in Threads |-> "none"]

----------------------------------------------------------------------------
(* SpecRegistry: one thread calling add, remove, addRedirect and find      *)

\* Arguments of the calls: with and without trailing slashes.
RawResources == {S_empty, S_root, S_a, S_a_, S_a__, S_a_b}
RawRedirectFrom == {S_x, S_x_}
RawRedirectTo == {S_y, S_z_}
Queries == {S_empty, S_a, S_a_, S_a_b, S_a_b_c, S_a_bb, S_ab, S_a__b, S_b}

Logged(op, key, handler, target) ==
    /\ prevOp' = lastOp
    /\ lastOp' = [op |-> op, key |-> key, handler |-> handler, target |-> target]
    /\ findArg' = <<>>
    /\ findRes' = NoFind

\* addResource called with the mutex free: lines 146-153.
AddResource(resource, handler) ==
    /\ m_resources' = AddResourceBody(m_resources, resource, handler)
    /\ Logged("add", stripTrailingSlash(resource), handler, <<>>)
    /\ UNCHANGED <<m_redirects, reqVars, concVars, m_auth_ptr, reader>>

\* removeResource: lines 155-161.
RemoveResource(resource) ==
    /\ m_resources' = RemoveResourceBody(m_resources, resource)
    /\ Logged("remove", stripTrailingSlash(resource), NoHandler, <<>>)
    /\ UNCHANGED <<m_redirects, reqVars, concVars, m_auth_ptr, reader>>

\* addRedirect: lines 163-171.
AddRedirect(requested_resource, new_resource) ==
    /\ m_redirects' = AddRedirectBody(m_redirects, requested_resource, new_resource)
    /\ Logged("redirect", stripTrailingSlash(requested_resource), NoHandler,
              stripTrailingSlash(new_resource))
    /\ UNCHANGED <<m_resources, reqVars, concVars, m_auth_ptr, reader>>

\* findRequestHandler: lines 120-144.
Find(resource) ==
    /\ findArg' = resource
    /\ findRes' = [called |-> TRUE] @@ FindRequestHandler(m_resources, resource)
    /\ UNCHANGED <<prevOp, lastOp, regVars, reqVars, concVars, m_auth_ptr, reader>>

InitRegistry ==
    /\ RegInit /\ HistInit /\ ReqInit /\ ConcInit /\ ReaderInit
    /\ m_auth_ptr = FALSE
    /\ adminLeft = 0

NextRegistry ==
    \/ \E r \in RawResources, h \in Handlers : AddResource(r, h)
    \/ \E r \in RawResources : RemoveResource(r)
    \/ \E f \in RawRedirectFrom, t \in RawRedirectTo : AddRedirect(f, t)
    \/ \E r \in Queries : Find(r)

SpecRegistry == InitRegistry /\ [][NextRegistry]_vars

----------------------------------------------------------------------------
(* HTTPServer::handleRequest, lines 37-118, one action per step            *)

MAX_REDIRECTS == 10

\* What handleRequest did, with the request as it stood at that moment.
Event(name, req) ==
    [e |-> name, resource |-> req.resource, original |-> req.original_resource]

\* A response sent through an HTTPResponseWriter.
Response(by, status, msg, resource) ==
    [by |-> by, status |-> status, msg |-> msg, resource |-> resource]

\* handleBadRequest, lines 173-189.
HandleBadRequest(sent, req) ==
    Append(sent, Response("handleBadRequest", 400, <<>>, <<>>))

\* handleNotFoundRequest without the send().
HandleNotFoundRequest_NoSend(sent, req) == sent

\* handleNotFoundRequest, lines 191-211: the page embeds getResource().
HandleNotFoundRequest(sent, req) ==
    Append(sent, Response("handleNotFoundRequest", 404, <<>>, req.resource))

\* Lines 217-225: the fixed text around the message, one token each.
SERVER_ERROR_HTML_START == <<"SERVER_ERROR_HTML_START">>
SERVER_ERROR_HTML_FINISH == <<"SERVER_ERROR_HTML_FINISH">>

\* Lines 230-232: the body written, as a sequence of words.
ServerErrorBody(error_msg) ==
    SERVER_ERROR_HTML_START \o error_msg \o SERVER_ERROR_HTML_FINISH

\* handleServerError, lines 213-234: the page embeds error_msg.
HandleServerError(sent, req, error_msg) ==
    Append(sent, [by |-> "handleServerError", status |-> 500,
                  msg |-> error_msg, resource |-> <<>>,
                  body |-> ServerErrorBody(error_msg)])

\* The message of line 65 without its middle and its tail.
RedirectErrorMessage_Short ==
    <<"Maximum", "number", "of", "redirects", "exceeded">>

\* Line 65: the message passed to the server-error handler, word by word.
RedirectErrorMessage ==
    <<"Maximum", "number", "of", "redirects", "(HTTPServer::MAX_REDIRECTS)",
      "exceeded", "for", "requested", "resource">>

\* Line 77: an authenticator that returns false has sent the 401 itself.
AuthenticatorResponds(sent) ==
    Append(sent, Response("authenticator", 401, <<>>, <<>>))

\* A handler that returns normally has produced the response itself.
HandlerResponds(sent, handler) ==
    Append(sent, Response(handler, 200, <<>>, <<>>))

\* changeResource that overwrites the original resource as well.
ChangeResource_LosesOriginal(req, resource) ==
    [req EXCEPT !.resource = resource, !.original_resource = resource]

\* HTTPRequest::changeResource: rewrites the resource, keeps the original.
ChangeResource(req, resource) == [req EXCEPT !.resource = resource]

\* The error gate without the validity test.
ErrorGate_ErrOnly(e, req) == e.value # 0

\* Line 40: the condition of the error gate.
ErrorGate(e, req) == e.value # 0 \/ ~req.valid

\* Line 42: &ec.category() == &http::parser::get_error_category().
IsParserError(e) == e.category = "parser"

\* SendsBadRequest without the is_open() test.
SendsBadRequest_IgnoresOpen(c, e) == IsParserError(e)

\* Line 42: the whole condition under which the 400 is sent.
SendsBadRequest(c, e) == c.open /\ IsParserError(e)

\* RedirectsExceeded with >= for >: the tenth redirect already fails.
RedirectsExceeded_OffByOne(n) == n >= MAX_REDIRECTS

\* RedirectsExceeded with a pre-increment turned post-increment: an eleventh
\* rewrite is let through.
RedirectsExceeded_OneMore(n) == n - 1 > MAX_REDIRECTS

\* Line 63: ++num_redirects > MAX_REDIRECTS, n being the incremented counter.
RedirectsExceeded(n) == n > MAX_REDIRECTS

\* AfterAuth ignoring the authenticator's answer.
AfterAuth_IgnoresResult(ok) == "line89"

\* Lines 76-84: where handleRequest goes on the authenticator's answer.
AfterAuth(ok) == IF ok THEN "line89" ELSE "done"

\* std::map::find on m_redirects, as the iterator handleRequest keeps.
MapFind(m, k) ==
    IF k \in DOMAIN m THEN [end |-> FALSE, first |-> k, second |-> m[k]]
    ELSE NoIterator

\* The exception types a handler throws, and the catch clauses they match:
\* catch (std::bad_alloc&) at line 99, catch (std::exception&) at line 102.
ExceptionTypes ==
    {"std::bad_alloc", "std::bad_array_new_length", "std::runtime_error", "int"}
IsBadAlloc(type) == type \in {"std::bad_alloc", "std::bad_array_new_length"}
IsStdException(type) == IsBadAlloc(type) \/ type = "std::runtime_error"

\* Lines 99-106: which clause takes the exception.
CatchClause(type) ==
    IF IsBadAlloc(type) THEN "rethrow"
    ELSE IF IsStdException(type) THEN "server_error"
    ELSE "uncaught"

\* boost::diagnostic_information(e): names the type and carries what().
DiagnosticInformation(e) == <<e.type, e.what>>

\* A scoped_lock that is not released when its function returns.
ScopedLockRelease_Kept(owner, t) == owner

\* The scoped_lock of findRequestHandler (line 124) going out of scope.
ScopedLockRelease(owner, t) == IF owner = t THEN "none" ELSE owner

\* The request reader's completion callback enters handleRequest (line 31).
HandleRequestCall(resource, e, valid, open, lifecycle) ==
    /\ pc = "idle"
    /\ pc' = "line40"
    /\ request' = [resource |-> resource, original_resource |-> resource,
                   valid |-> valid]
    /\ ec' = e
    /\ conn' = [open |-> open, lifecycle |-> lifecycle, finished |-> 0]
    /\ events' = Append(events, [e |-> "call", resource |-> resource,
                                 original |-> resource,
                                 lifecycle |-> lifecycle])
    /\ UNCHANGED <<resource_requested, it, num_redirects, request_handler,
                   thrown, responses>>
    /\ UNCHANGED <<regVars, histVars, concVars, m_auth_ptr, reader>>

\* Line 40.
HR_Enter ==
    /\ pc = "line40"
    /\ pc' = IF ErrorGate(ec, request) THEN "line41" ELSE "line57"
    /\ UNCHANGED <<request, ec, conn, resource_requested, it, num_redirects,
                   request_handler, thrown, events, responses>>
    /\ UNCHANGED <<regVars, histVars, concVars, m_auth_ptr, reader>>

\* Line 41.
HR_SetLifecycle ==
    /\ pc = "line41"
    /\ conn' = [conn EXCEPT !.lifecycle = "CLOSE"]
    /\ events' = Append(events, Event("set_lifecycle", request))
    /\ pc' = "line42"
    /\ UNCHANGED <<request, ec, resource_requested, it, num_redirects,
                   request_handler, thrown, responses>>
    /\ UNCHANGED <<regVars, histVars, concVars, m_auth_ptr, reader>>

\* Lines 42-51.
HR_ErrorRespond ==
    /\ pc = "line42"
    /\ IF SendsBadRequest(conn, ec)
       THEN /\ responses' = HandleBadRequest(responses, request)
            /\ events' = Append(events, Event("bad_request", request))
            /\ conn' = conn
       ELSE /\ conn' = [conn EXCEPT !.finished = @ + 1]
            /\ events' = Append(events, Event("finish", request))
            /\ responses' = responses
    /\ pc' = "done"
    /\ UNCHANGED <<request, ec, resource_requested, it, num_redirects,
                   request_handler, thrown>>
    /\ UNCHANGED <<regVars, histVars, concVars, m_auth_ptr, reader>>

\* Line 57 writing the stripped resource back into the request.
HR_Normalize_RewritesRequest ==
    /\ pc = "line57"
    /\ resource_requested' = stripTrailingSlash(request.resource)
    /\ request' = ChangeResource(request, stripTrailingSlash(request.resource))
    /\ pc' = "redirect_find"
    /\ UNCHANGED <<ec, conn, it, num_redirects, request_handler,
                   thrown, events, responses>>
    /\ UNCHANGED <<regVars, histVars, concVars, m_auth_ptr, reader>>

\* Line 57.
HR_Normalize ==
    /\ pc = "line57"
    /\ resource_requested' = stripTrailingSlash(request.resource)
    /\ pc' = "redirect_find"
    /\ UNCHANGED <<request, ec, conn, it, num_redirects, request_handler,
                   thrown, events, responses>>
    /\ UNCHANGED <<regVars, histVars, concVars, m_auth_ptr, reader>>

\* Lines 60 and 70: m_redirects.find starts; m_resource_mutex is not taken.
HR_RedirectFindBegin ==
    /\ pc = "redirect_find"
    /\ accessing' = [accessing EXCEPT !["D"] =
           IF accessing["A"] = "write m_redirects"
           THEN "raced read m_redirects" ELSE "read m_redirects"]
    /\ pc' = "redirect_found"
    /\ UNCHANGED <<request, ec, conn, resource_requested, it, num_redirects,
                   request_handler, thrown, events, responses>>
    /\ UNCHANGED <<regVars, histVars, mutexOwner, admin, adminLeft, m_auth_ptr, reader>>

\* Lines 60 and 70: m_redirects.find returns.
HR_RedirectFindEnd ==
    /\ pc = "redirect_found"
    /\ accessing["D"] = "read m_redirects"
    /\ it' = MapFind(m_redirects, resource_requested)
    /\ accessing' = [accessing EXCEPT !["D"] = "none"]
    /\ events' = Append(events, Event("redirect_lookup", request))
    /\ pc' = "line62"
    /\ UNCHANGED <<request, ec, conn, resource_requested, num_redirects,
                   request_handler, thrown, responses>>
    /\ UNCHANGED <<regVars, histVars, mutexOwner, admin, adminLeft, m_auth_ptr, reader>>

\* Lines 60 and 70 when an insert into m_redirects ran during the find: a data
\* race, so the find may miss the key, land on any entry, or crash.
HR_RedirectFindRaced ==
    /\ pc = "redirect_found"
    /\ accessing["D"] = "raced read m_redirects"
    /\ accessing' = [accessing EXCEPT !["D"] = "none"]
    /\ \/ /\ \E i \in {NoIterator} \cup {MapFind(m_redirects, k) : k \in DOMAIN m_redirects} :
                it' = i
          /\ events' = Append(events, Event("redirect_lookup", request))
          /\ pc' = "line62"
       \/ /\ pc' = "crashed"
          /\ UNCHANGED <<it, events>>
    /\ UNCHANGED <<request, ec, conn, resource_requested, num_redirects,
                   request_handler, thrown, responses>>
    /\ UNCHANGED <<regVars, histVars, mutexOwner, admin, adminLeft, m_auth_ptr, reader>>

\* Lines 62-69: one turn of the while loop, up to the next find.
HR_RedirectLoop ==
    /\ pc = "line62"
    /\ IF it.end
       THEN /\ pc' = "line74"
            /\ UNCHANGED <<num_redirects, resource_requested, request, events,
                           responses>>
       ELSE /\ num_redirects' = num_redirects + 1
            /\ IF RedirectsExceeded(num_redirects + 1)
               THEN /\ responses' =
                          HandleServerError(responses, request, RedirectErrorMessage)
                    /\ events' = Append(events, Event("server_error", request))
                    /\ pc' = "done"
                    /\ UNCHANGED <<resource_requested, request>>
               ELSE /\ resource_requested' = it.second
                    /\ request' = ChangeResource(request, it.second)
                    /\ events' = Append(events, Event("change_resource", request'))
                    /\ pc' = "redirect_find"
                    /\ responses' = responses
    /\ UNCHANGED <<ec, conn, it, request_handler, thrown>>
    /\ UNCHANGED <<regVars, histVars, concVars, m_auth_ptr, reader>>

\* Lines 74-85: the authenticator, when there is one, decides.
HR_Auth ==
    /\ pc = "line74"
    /\ IF m_auth_ptr
       THEN \E ok \in BOOLEAN :
              /\ events' = Append(events, Event("auth", request))
              /\ pc' = AfterAuth(ok)
              /\ responses' = IF ok THEN responses
                               ELSE AuthenticatorResponds(responses)
       ELSE pc' = "line89" /\ UNCHANGED <<events, responses>>
    /\ UNCHANGED <<request, ec, conn, resource_requested, it, num_redirects,
                   request_handler, thrown>>
    /\ UNCHANGED <<regVars, histVars, concVars, m_auth_ptr, reader>>

\* Lines 89 and 124: findRequestHandler is entered and takes the mutex.
FRH_Lock ==
    /\ pc = "line89"
    /\ mutexOwner = "none"
    /\ mutexOwner' = "D"
    /\ pc' = "frh_body"
    /\ UNCHANGED <<request, ec, conn, resource_requested, it, num_redirects,
                   request_handler, thrown, events, responses>>
    /\ UNCHANGED <<regVars, histVars, admin, adminLeft, accessing, m_auth_ptr, reader>>

\* Lines 125-141: the search, and the copy of the handler at line 137.
FRH_Search ==
    /\ pc = "frh_body"
    /\ accessing' = [accessing EXCEPT !["D"] = "read m_resources"]
    /\ findArg' = resource_requested
    /\ findRes' = [called |-> TRUE] @@ FindRequestHandler(m_resources, resource_requested)
    /\ request_handler' = findRes'.handler
    /\ events' = Append(events, Event("find_handler", request))
    /\ pc' = "frh_return"
    /\ UNCHANGED <<request, ec, conn, resource_requested, it, num_redirects,
                   thrown, responses>>
    /\ UNCHANGED <<regVars, prevOp, lastOp, mutexOwner, admin, adminLeft, m_auth_ptr, reader>>

\* Lines 126, 138, 143: findRequestHandler returns, its scoped_lock is destroyed.
FRH_Return ==
    /\ pc = "frh_return"
    /\ accessing' = [accessing EXCEPT !["D"] = "none"]
    /\ mutexOwner' = ScopedLockRelease(mutexOwner, "D")
    /\ pc' = IF findRes.found THEN "line93" ELSE "line116"
    /\ UNCHANGED <<request, ec, conn, resource_requested, it, num_redirects,
                   request_handler, thrown, events, responses>>
    /\ UNCHANGED <<regVars, histVars, admin, adminLeft, m_auth_ptr, reader>>

\* Line 93: the handler is called.
HR_InvokeHandler ==
    /\ pc = "line93"
    /\ events' = Append(events, Event("handler", request))
    /\ pc' = "in_handler"
    /\ UNCHANGED <<request, ec, conn, resource_requested, it, num_redirects,
                   request_handler, thrown, responses>>
    /\ UNCHANGED <<regVars, histVars, concVars, m_auth_ptr, reader>>

\* Line 93 followed by a finish() of handleRequest's own.
HR_HandlerReturns_Finishes ==
    /\ pc = "in_handler"
    /\ admin["D"].step = "idle"
    /\ responses' = HandlerResponds(responses, request_handler)
    /\ conn' = [conn EXCEPT !.finished = @ + 1]
    /\ pc' = "done"
    /\ UNCHANGED <<request, ec, resource_requested, it, num_redirects,
                   request_handler, thrown, events>>
    /\ UNCHANGED <<regVars, histVars, concVars, m_auth_ptr, reader>>

\* Line 93: the handler returns normally.
HR_HandlerReturns ==
    /\ pc = "in_handler"
    /\ admin["D"].step = "idle"
    /\ responses' = HandlerResponds(responses, request_handler)
    /\ pc' = "done"
    /\ UNCHANGED <<request, ec, conn, resource_requested, it, num_redirects,
                   request_handler, thrown, events>>
    /\ UNCHANGED <<regVars, histVars, concVars, m_auth_ptr, reader>>

\* Line 93: the handler throws.
HR_HandlerThrows(type, what) ==
    /\ pc = "in_handler"
    /\ admin["D"].step = "idle"
    /\ thrown' = [type |-> type, what |-> what]
    /\ pc' = "line99"
    /\ UNCHANGED <<request, ec, conn, resource_requested, it, num_redirects,
                   request_handler, events, responses>>
    /\ UNCHANGED <<regVars, histVars, concVars, m_auth_ptr, reader>>

\* Lines 99-106: the catch clauses.
HR_Catch ==
    /\ pc = "line99"
    /\ IF CatchClause(thrown.type) = "server_error"
       THEN /\ responses' = HandleServerError(responses, request,
                                              DiagnosticInformation(thrown))
            /\ events' = Append(events, Event("server_error", request))
            /\ thrown' = NoException
            /\ pc' = "done"
       ELSE /\ pc' = "escaped"
            /\ UNCHANGED <<responses, events, thrown>>
    /\ UNCHANGED <<request, ec, conn, resource_requested, it, num_redirects,
                   request_handler>>
    /\ UNCHANGED <<regVars, histVars, concVars, m_auth_ptr, reader>>

\* Lines 108-117.
HR_NotFound ==
    /\ pc = "line116"
    /\ responses' = HandleNotFoundRequest(responses, request)
    /\ events' = Append(events, Event("not_found", request))
    /\ pc' = "done"
    /\ UNCHANGED <<request, ec, conn, resource_requested, it, num_redirects,
                   request_handler, thrown>>
    /\ UNCHANGED <<regVars, histVars, concVars, m_auth_ptr, reader>>

----------------------------------------------------------------------------
(* SpecDispatch: one call of handleRequest on a configured server          *)

\* Redirect chains of 0 .. MAX_REDIRECTS + ChainSlack hops are configured.
ChainSlack == 1
MaxChain == MAX_REDIRECTS + ChainSlack

\* The resources of a chain: "/a", "/aa", "/aaa", ...
Node(i) == <<Slash>> \o [j \in 1..(i + 1) |-> 97]

\* The table left by addRedirect(Node(i) + "/", Node(i + 1)) for i < hops.
RECURSIVE Chain(_)
Chain(hops) ==
    IF hops = 0 THEN EmptyMap
    ELSE AddRedirectBody(Chain(hops - 1), Node(hops - 1) \o <<Slash>>, Node(hops))

\* The same, closed into a cycle by addRedirect(Node(hops), Node(0)).
ChainTable(hops, closed) ==
    IF closed THEN AddRedirectBody(Chain(hops), Node(hops), Node(0))
    ELSE Chain(hops)

RedirectChoices == {ChainTable(n, c) : n \in 0..MaxChain, c \in BOOLEAN}

\* Registries left by addResource calls.
RegistryChoices ==
    LET root == AddResourceBody(EmptyMap, S_root, "h1")
    IN  {EmptyMap, root,
         AddResourceBody(EmptyMap, Node(1) \o <<Slash>>, "h2"),
         AddResourceBody(root, Node(1), "h2")}

RequestResources == {Node(0), Node(0) \o <<Slash>>, Node(1), S_a_b}

ErrorCodes ==
    {NoError,
     [value |-> 0, category |-> "parser"],
     [value |-> 1, category |-> "parser"],
     [value |-> 1, category |-> "system"],
     [value |-> 1, category |-> "asio.misc"]}

Lifecycles == {"CLOSE", "KEEPALIVE"}

ExceptionTexts == {"kaboom"}

InitDispatch ==
    /\ m_resources \in RegistryChoices
    /\ m_redirects \in RedirectChoices
    /\ m_auth_ptr \in BOOLEAN
    /\ HistInit /\ ReqInit /\ ConcInit /\ ReaderInit
    /\ adminLeft = 0

HandleRequestSteps ==
    \/ HR_Enter
    \/ HR_SetLifecycle
    \/ HR_ErrorRespond
    \/ HR_Normalize
    \/ HR_RedirectFindBegin
    \/ HR_RedirectFindEnd
    \/ HR_RedirectLoop
    \/ HR_Auth
    \/ FRH_Lock
    \/ FRH_Search
    \/ FRH_Return
    \/ HR_InvokeHandler
    \/ HR_HandlerReturns
    \/ \E type \in ExceptionTypes, what \in ExceptionTexts : HR_HandlerThrows(type, what)
    \/ HR_Catch
    \/ HR_NotFound

NextDispatch ==
    \/ \E r \in RequestResources, e \in ErrorCodes, valid \in BOOLEAN,
          open \in BOOLEAN, l \in Lifecycles : HandleRequestCall(r, e, valid, open, l)
    \/ HandleRequestSteps

SpecDispatch == InitDispatch /\ [][NextDispatch]_vars

----------------------------------------------------------------------------
(* SpecConc: handleRequest on thread D while thread A, and the handler on  *)
(* thread D, call addResource, removeResource and addRedirect              *)

MaxAdminCalls == 2

TableOf(op) == IF op = "addRedirect" THEN "m_redirects" ELSE "m_resources"

\* A thread enters addResource, removeResource or addRedirect; the
\* dispatching thread does so only from inside a handler (line 93).
AdminCall(t, op, a1, a2, handler) ==
    /\ admin[t].step = "idle"
    /\ adminLeft > 0
    /\ t = "D" => pc = "in_handler"
    /\ admin' = [admin EXCEPT ![t] =
           [op |-> op, step |-> "lock", a1 |-> a1, a2 |-> a2, handler |-> handler]]
    /\ adminLeft' = adminLeft - 1
    /\ UNCHANGED <<regVars, histVars, reqVars, mutexOwner, accessing, m_auth_ptr, reader>>

\* Lines 149, 157, 166: the scoped_lock is taken.
AdminLock(t) ==
    /\ admin[t].step = "lock"
    /\ mutexOwner = "none"
    /\ mutexOwner' = t
    /\ admin' = [admin EXCEPT ![t].step = "locked"]
    /\ UNCHANGED <<regVars, histVars, reqVars, adminLeft, accessing, m_auth_ptr, reader>>

\* Lines 151, 159, 169: the insert or erase starts; a find that another thread
\* has in progress on the same table now races with it.
AdminWriteBegin(t) ==
    /\ admin[t].step = "locked"
    /\ accessing' = [u \in Threads |->
           IF u = t THEN "write " \o TableOf(admin[t].op)
           ELSE IF accessing[u] = "read " \o TableOf(admin[t].op)
                THEN "raced read " \o TableOf(admin[t].op)
                ELSE accessing[u]]
    /\ admin' = [admin EXCEPT ![t].step = "writing"]
    /\ UNCHANGED <<regVars, histVars, reqVars, mutexOwner, adminLeft, m_auth_ptr, reader>>

\* Lines 151-153, 159-161, 169-171: the insert or erase completes and the
\* function returns, which destroys the scoped_lock.
AdminWriteEnd(t) ==
    /\ admin[t].step = "writing"
    /\ m_resources' =
           IF admin[t].op = "addResource"
           THEN AddResourceBody(m_resources, admin[t].a1, admin[t].handler)
           ELSE IF admin[t].op = "removeResource"
           THEN RemoveResourceBody(m_resources, admin[t].a1)
           ELSE m_resources
    /\ m_redirects' =
           IF admin[t].op = "addRedirect"
           THEN AddRedirectBody(m_redirects, admin[t].a1, admin[t].a2)
           ELSE m_redirects
    /\ accessing' = [accessing EXCEPT ![t] = "none"]
    /\ mutexOwner' = ScopedLockRelease(mutexOwner, t)
    /\ admin' = [admin EXCEPT ![t] = NoAdmin]
    /\ UNCHANGED <<histVars, reqVars, adminLeft, m_auth_ptr, reader>>

ConcCalls ==
    {[op |-> "addRedirect", a1 |-> S_x_, a2 |-> S_y, handler |-> NoHandler],
     [op |-> "addRedirect", a1 |-> S_y, a2 |-> S_x, handler |-> NoHandler],
     [op |-> "addResource", a1 |-> S_x, a2 |-> <<>>, handler |-> "h2"],
     [op |-> "removeResource", a1 |-> S_root, a2 |-> <<>>, handler |-> NoHandler]}

ConcRequests == {S_x, S_y}
ConcErrors == {NoError, [value |-> 1, category |-> "parser"]}

InitConc ==
    /\ m_resources = AddResourceBody(EmptyMap, S_root, "h1")
    /\ m_redirects \in {EmptyMap, AddRedirectBody(EmptyMap, S_x, S_y)}
    /\ m_auth_ptr = FALSE
    /\ HistInit /\ ReqInit /\ ConcInit /\ ReaderInit
    /\ adminLeft = MaxAdminCalls

NextConc ==
    \/ \E r \in ConcRequests, e \in ConcErrors :
           HandleRequestCall(r, e, TRUE, TRUE, "KEEPALIVE")
    \/ HandleRequestSteps
    \/ HR_RedirectFindRaced
    \/ \E t \in Threads, c \in ConcCalls : AdminCall(t, c.op, c.a1, c.a2, c.handler)
    \/ \E t \in Threads : AdminLock(t)
    \/ \E t \in Threads : AdminWriteBegin(t)
    \/ \E t \in Threads : AdminWriteEnd(t)

SpecConc == InitConc /\ [][NextConc]_vars

----------------------------------------------------------------------------
(* HTTPReader (reader.hpp) as driven by handleConnection, lines 28-35       *)

\* The most reads one message takes.
MaxReads == 2

\* Results of one feed of the parser.
ParseResults == {"NEED_MORE", "COMPLETE", "ERROR"}

\* The results a feed can give to this reader: a message whose reads are used
\* up does not ask for more.
ParseResultsFor(rd) ==
    IF rd.reads < MaxReads THEN ParseResults ELSE ParseResults \ {"NEED_MORE"}

\* Results of an asynchronous read that was not cancelled.
ReadResults == {"ok", "eof", "error"}

\* readBytesWithTimeout (reader.hpp:85): arm the timer, issue one read.
\* Arming resets the deadline of a timer that was already set.
ReadBytesWithTimeout(rd) ==
    [rd EXCEPT !.state = "READING", !.timer = "armed", !.timer_fired = FALSE,
               !.read = "pending", !.reads = @ + 1]

\* The timer's cancel(): an expiry whose handler is already queued stays queued.
CancelTimer(rd) ==
    [rd EXCEPT !.timer = IF @ = "armed" THEN "off" ELSE @]

\* finishedReading (reader.hpp:76): DONE, the completion callback is invoked;
\* a finished reader ignores the call.
FinishedReading(rd, outcome) ==
    IF rd.state = "DONE" THEN rd
    ELSE [CancelTimer(rd) EXCEPT !.state = "DONE", !.outcome = outcome,
                                 !.callbacks = @ + 1]

\* consumeBytes() (reader.hpp:70): PARSING, one feed of the parser.
ConsumeBytes(rd, result) ==
    LET fed == [rd EXCEPT !.state = "PARSING", !.consumed = TRUE]
    IN  CASE result = "NEED_MORE" -> ReadBytesWithTimeout(fed)
          [] result = "COMPLETE"  -> FinishedReading(fed, "ok")
          [] OTHER                -> FinishedReading(fed, "parse_err")

\* handleReadError (reader.hpp:92).
HandleReadError(rd, io_err, result) ==
    CASE io_err = "cancelled" /\ rd.timer_fired -> FinishedReading(rd, "timeout")
      [] io_err = "eof" /\ rd.consumed -> ConsumeBytes(CancelTimer(rd), result)
      [] OTHER -> FinishedReading(rd, "io_err")

\* consumeBytes(read_error, bytes_read) (reader.hpp:66-67): the completion
\* handler of the read.
ConsumeBytesAfterRead(rd, io_err, result) ==
    LET got == [rd EXCEPT !.read = "none"]
    IN  IF rd.state = "DONE" THEN [got EXCEPT !.late_ignored = TRUE]
        ELSE IF io_err # "ok" THEN HandleReadError(got, io_err, result)
        ELSE ConsumeBytes(CancelTimer(got), result)

\* receive() (reader.hpp:37): buffered bytes are parsed first, else a read.
Receive(rd, buffered, result) ==
    IF buffered THEN ConsumeBytes(rd, result) ELSE ReadBytesWithTimeout(rd)

\* The timer's expiry handler: cancels the pending read; no-op without one.
TimerExpiry(rd) ==
    IF rd.state = "DONE" THEN [rd EXCEPT !.timer = "off", !.late_ignored = TRUE]
    ELSE IF rd.read = "pending"
         THEN [rd EXCEPT !.timer = "off", !.timer_fired = TRUE,
                         !.read = "cancelled"]
         ELSE [rd EXCEPT !.timer = "off"]

\* The error_code the reader hands to its callback.
OutcomeError(outcome) ==
    CASE outcome = "ok"        -> NoError
      [] outcome = "parse_err" -> [value |-> 1, category |-> "parser"]
      [] outcome = "timeout"   -> [value |-> 1, category |-> "system"]
      [] OTHER                 -> [value |-> 1, category |-> "asio.misc"]

\* Line 31: the callback bound to the reader is handleRequest; each time the
\* reader invokes it, handleRequest is entered.
CompletionCallback(before, after, resource) ==
    IF after.callbacks > before.callbacks
    THEN /\ pc' = "line40"
         /\ request' = [resource |-> resource, original_resource |-> resource,
                        valid |-> after.outcome = "ok"]
         /\ ec' = OutcomeError(after.outcome)
         /\ conn' = [open |-> after.outcome # "io_err", lifecycle |-> "CLOSE",
                     finished |-> 0]
         /\ events' = Append(events, [e |-> "call", resource |-> resource,
                                      original |-> resource,
                                      lifecycle |-> "CLOSE"])
    ELSE UNCHANGED <<pc, request, ec, conn, events>>

\* handleConnection without the receive() of line 34.
HandleConnection_NoReceive(buffered, result, resource) ==
    /\ ~reader.created
    /\ result \in ParseResultsFor(reader)
    /\ reader' = [NoReader EXCEPT !.created = TRUE]
    /\ CompletionCallback(reader, reader', resource)
    /\ UNCHANGED <<resource_requested, it, num_redirects, request_handler,
                   thrown, responses>>
    /\ UNCHANGED <<regVars, histVars, concVars, m_auth_ptr>>

\* handleConnection, lines 28-35: create the reader, receive().
HandleConnection(buffered, result, resource) ==
    /\ ~reader.created
    /\ result \in ParseResultsFor(reader)
    /\ reader' = Receive([NoReader EXCEPT !.created = TRUE], buffered, result)
    /\ CompletionCallback(reader, reader', resource)
    /\ UNCHANGED <<resource_requested, it, num_redirects, request_handler,
                   thrown, responses>>
    /\ UNCHANGED <<regVars, histVars, concVars, m_auth_ptr>>

\* The pending read completes; its handler is queued.
ReadCompletes(io_err) ==
    /\ reader.read = "pending"
    /\ reader' = [reader EXCEPT !.read = io_err]
    /\ UNCHANGED <<regVars, histVars, reqVars, concVars, m_auth_ptr>>

\* The deadline passes; the expiry handler is queued.
TimerExpires ==
    /\ reader.timer = "armed"
    /\ reader' = [reader EXCEPT !.timer = "expiring"]
    /\ UNCHANGED <<regVars, histVars, reqVars, concVars, m_auth_ptr>>

\* The queued expiry handler runs.
TimerHandler ==
    /\ reader.timer = "expiring"
    /\ reader' = TimerExpiry(reader)
    /\ UNCHANGED <<regVars, histVars, reqVars, concVars, m_auth_ptr>>

\* The queued completion handler of the read runs.
ReadHandler(result, resource) ==
    /\ reader.read \in ReadResults \cup {"cancelled"}
    /\ result \in ParseResultsFor(reader)
    /\ reader' = ConsumeBytesAfterRead(reader, reader.read, result)
    /\ CompletionCallback(reader, reader', resource)
    /\ UNCHANGED <<resource_requested, it, num_redirects, request_handler,
                   thrown, responses>>
    /\ UNCHANGED <<regVars, histVars, concVars, m_auth_ptr>>

InitReader ==
    /\ RegInit /\ HistInit /\ ReqInit /\ ConcInit /\ ReaderInit
    /\ m_auth_ptr = FALSE
    /\ adminLeft = 0

ReaderHandlers ==
    \/ TimerHandler
    \/ \E result \in ParseResults, resource \in RequestResources :
           ReadHandler(result, resource)

NextReader ==
    \/ \E buffered \in BOOLEAN, result \in ParseResults,
          resource \in RequestResources :
           HandleConnection(buffered, result, resource)
    \/ \E io_err \in ReadResults : ReadCompletes(io_err)
    \/ TimerExpires
    \/ ReaderHandlers

\* The event loop runs every queued handler and the deadline of an armed
\* timer passes; nothing makes the peer send, so a read need not complete.
SpecReader ==
    /\ InitReader /\ [][NextReader]_vars
    /\ WF_vars(TimerExpires)
    /\ WF_vars(ReaderHandlers)

----------------------------------------------------------------------------
(* Claims about the registry                                               *)

\* R == K, or R starts with K followed by '/'.
BoundaryPrefix(K, R) ==
    \/ R = K
    \/ /\ Len(R) > Len(K)
       /\ SubSeq(R, 1, Len(K) + 1) = K \o <<Slash>>

MatchingKeys(R) == {K \in DOMAIN m_resources : BoundaryPrefix(K, R)}

LongestMatchingKey(R) ==
    CHOOSE K \in MatchingKeys(R) : \A J \in MatchingKeys(R) : Len(J) <= Len(K)

\* C1: find(R) returns the handler of the longest registered key K with R == K
\* or R starting with K + '/', and reports not found when there is no such key.
C1_LongestPrefix ==
    findRes.called =>
        /\ findRes.found <=> MatchingKeys(findArg) # {}
        /\ findRes.found =>
               findRes.handler = m_resources[LongestMatchingKey(findArg)]

\* C1 witness: with keys "", "/a", "/a/b" registered under handlers that differ,
\* "/a/bb" was looked up and the handler of "/a" came back.
C1_Witness ==
    /\ {S_empty, S_a, S_a_b} \subseteq DOMAIN m_resources
    /\ m_resources[S_a] # m_resources[S_a_b]
    /\ findArg = S_a_bb
    /\ findRes.found
    /\ findRes.handler = m_resources[S_a]

\* C10: after add(K, h) followed by add(K, h'), find(K) returns h'.
C10_SecondAddReplaces ==
    ( /\ prevOp.op = "add" /\ lastOp.op = "add"
      /\ prevOp.key = lastOp.key
      /\ findRes.called /\ findArg = lastOp.key )
    => (findRes.found /\ findRes.handler = lastOp.handler)

----------------------------------------------------------------------------
(* Claims about handleRequest                                              *)

\* How many times handleRequest did the thing named.
Count(name) == Cardinality({i \in 1..Len(events) : events[i].e = name})

Returned == pc = "done"
Escaped == pc = "escaped"
Terminal == Returned \/ Escaped

\* The call was made and went past the error gate of line 40.
PassedGate ==
    pc \notin {"idle", "line40", "line41", "line42"} /\ ~ErrorGate(ec, request)

\* The call was made and went into the error gate.
InGate == pc # "idle" /\ ErrorGate(ec, request)

\* The redirect loop of lines 60-71 is over.
RedirectsOver ==
    PassedGate /\ pc \notin {"line57", "redirect_find", "redirect_found", "line62"}

\* The number of hops of the redirect chain that starts at r, counted up to
\* fuel hops.
RECURSIVE Hops(_, _, _)
Hops(table, r, fuel) ==
    IF r \notin DOMAIN table \/ fuel = 0 THEN 0
    ELSE 1 + Hops(table, table[r], fuel - 1)

\* The resource reached after following the chain from r for at most fuel hops.
RECURSIVE Target(_, _, _)
Target(table, r, fuel) ==
    IF r \notin DOMAIN table \/ fuel = 0 THEN r
    ELSE Target(table, table[r], fuel - 1)

RequestedNormalized == stripTrailingSlash(request.original_resource)

\* The chain from the requested resource has at most MAX_REDIRECTS hops.
ShortChain == Hops(m_redirects, RequestedNormalized, MAX_REDIRECTS + 1) <= MAX_REDIRECTS
ChainHops == Hops(m_redirects, RequestedNormalized, MAX_REDIRECTS + 1)
ChainTarget == Target(m_redirects, RequestedNormalized, MAX_REDIRECTS)

RedirectErrorSent ==
    \E i \in 1..Len(responses) :
        responses[i].by = "handleServerError" /\ responses[i].msg = RedirectErrorMessage

AuthDenied == \E i \in 1..Len(responses) : responses[i].by = "authenticator"

\* Responses sent through a writer plus direct calls of connection.finish().
Completions == Len(responses) + conn.finished

\* The handler outcomes the claim lists: normal return, a failure derived from
\* std::exception, an allocation failure.
ListedOutcome == thrown.type = "none" \/ IsStdException(thrown.type)

C3_RedirectsBounded ==
    /\ Count("change_resource") <= MAX_REDIRECTS
    /\ Count("redirect_lookup") <= MAX_REDIRECTS + 1
    /\ num_redirects <= MAX_REDIRECTS + 1
    /\ (PassedGate /\ ShortChain) =>
           /\ ~RedirectErrorSent
           /\ Count("change_resource") <= ChainHops
           /\ pc \in {"redirect_find", "redirect_found", "line62"} =>
                  ENABLED (HR_RedirectFindBegin \/ HR_RedirectFindEnd \/ HR_RedirectLoop)
    /\ (RedirectsOver /\ ShortChain) =>
           /\ resource_requested = ChainTarget
           /\ Count("change_resource") = ChainHops
           /\ ChainHops > 0 => request.resource = ChainTarget
           /\ Returned => (m_auth_ptr => Count("auth") = 1) /\
                          (~AuthDenied => Count("find_handler") = 1)

\* C3 witness: a chain of exactly MAX_REDIRECTS hops was followed to its end and
\* dispatch is at the authentication step.
C3_Witness ==
    /\ pc = "line74"
    /\ ChainHops = MAX_REDIRECTS
    /\ Count("change_resource") = MAX_REDIRECTS
    /\ resource_requested = Node(MAX_REDIRECTS)
    /\ request.resource = Node(MAX_REDIRECTS)

\* C4: when the chain from the requested resource is longer than MAX_REDIRECTS,
\* handleRequest calls the server-error handler once, after exactly
\* MAX_REDIRECTS rewrites, and returns; the authenticator, the registry lookup,
\* the handlers and the not-found handler are not reached.
C4_RedirectsExceeded ==
    (PassedGate /\ ~ShortChain) =>
        /\ Count("auth") = 0
        /\ Count("find_handler") = 0
        /\ Count("handler") = 0
        /\ Count("not_found") = 0
        /\ Count("server_error") <= 1
        /\ pc \in {"line57", "redirect_find", "redirect_found", "line62", "done"}
        /\ Count("server_error") = 1 <=> Returned
        /\ Returned =>
               /\ Count("change_resource") = MAX_REDIRECTS
               /\ RedirectErrorSent
               /\ Len(responses) = 1

\* C4 witness: the cycle "/a" -> "/aa" -> "/a" was requested and answered by
\* the server-error handler after MAX_REDIRECTS rewrites.
C4_Witness ==
    /\ m_redirects = ChainTable(1, TRUE)
    /\ Returned
    /\ Count("server_error") = 1
    /\ Count("change_resource") = MAX_REDIRECTS
    /\ Count("auth") = 0

\* C5: in the error gate the Bad-Request handler is called if and only if the
\* connection is open and the error code is of the parser category; otherwise
\* connection.finish() is called exactly once and no response is sent.
C5_ErrorGate ==
    (InGate /\ Returned) =>
        IF conn.open /\ ec.category = "parser"
        THEN /\ Count("bad_request") = 1
             /\ Len(responses) = 1 /\ responses[1].by = "handleBadRequest"
             /\ conn.finished = 0
        ELSE /\ Count("bad_request") = 0
             /\ responses = <<>>
             /\ conn.finished = 1

\* C5 witness: a timeout (an error code of another category) on an open
\* connection ended in a silent finish().
C5_Witness ==
    /\ InGate /\ Returned
    /\ conn.open
    /\ ec = [value |-> 1, category |-> "system"]
    /\ conn.finished = 1
    /\ responses = <<>>

\* C6: a failing handler either throws an allocation failure, which leaves
\* handleRequest with no responder called, or any other failure, which is
\* caught and answered by the server-error handler once, with the failure's
\* diagnostic text; nothing but an allocation failure leaves handleRequest.
C6_OnlyAllocationFailureEscapes ==
    /\ Escaped => (IsBadAlloc(thrown.type) /\ responses = <<>> /\ conn.finished = 0)
    /\ (Terminal /\ Count("handler") = 1 /\ thrown.type = "none"
           /\ Count("server_error") = 0) =>
           (Len(responses) = 1 /\ responses[1].by = request_handler)
    /\ (Returned /\ Count("handler") = 1 /\ Count("server_error") = 1) =>
           /\ Len(responses) = 1
           /\ responses[1].by = "handleServerError"
           /\ responses[1].msg[2] \in ExceptionTexts

\* C7 as stated: with an authenticator registered, it is called exactly once for
\* every valid request.
C7_AuthOncePerValidRequest ==
    (m_auth_ptr /\ PassedGate /\ Terminal) => Count("auth") = 1

\* The authenticator is called after every redirect step and before the lookup.
AuthInOrder ==
    \A i, j \in 1..Len(events) :
        events[i].e = "auth" =>
            /\ events[j].e \in {"redirect_lookup", "change_resource"} => j < i
            /\ events[j].e \in {"find_handler", "handler", "not_found"} => i < j

\* C7 amended: with an authenticator registered, it is called exactly once for
\* every valid request whose redirect resolution did not exceed MAX_REDIRECTS
\* (and not at all otherwise), after redirect resolution and before the handler
\* lookup; when it returns false the engine does nothing more; when it returns
\* true, or there is no authenticator, dispatch goes on to the handler lookup.
C7_AuthGate ==
    /\ AuthInOrder
    /\ Count("auth") <= 1
    /\ ~m_auth_ptr => Count("auth") = 0
    /\ (m_auth_ptr /\ RedirectsOver /\ pc # "line74") =>
           Count("auth") = (IF RedirectErrorSent THEN 0 ELSE 1)
    /\ AuthDenied =>
           /\ Returned
           /\ Count("auth") = 1
           /\ Count("find_handler") = 0 /\ Count("handler") = 0
           /\ Count("not_found") = 0 /\ Count("server_error") = 0
           /\ Len(responses) = 1
           /\ conn.finished = 0
    /\ (Terminal /\ PassedGate /\ ~AuthDenied /\ ~RedirectErrorSent) =>
           Count("find_handler") = 1

\* C7 witness: after a redirect the authenticator refused the request and
\* handleRequest returned without a lookup.
C7_Witness ==
    /\ m_auth_ptr
    /\ Returned
    /\ AuthDenied
    /\ Count("change_resource") > 0
    /\ Count("find_handler") = 0

----------------------------------------------------------------------------
(* Claims about the mutex                                                  *)

Reads(t, table) == accessing[t] \in {"read " \o table, "raced read " \o table}
Writes(t, table) == accessing[t] = "write " \o table
Tables == {"m_resources", "m_redirects"}

\* C8: every access to m_resources and m_redirects (add, remove, addRedirect,
\* the registry lookup and the redirect lookups of handleRequest) is made by a
\* thread that holds m_resource_mutex, so no lookup reads a table while
\* another thread inserts into it or erases from it.
C8_TablesAccessedUnderLock ==
    /\ \A t \in Threads : accessing[t] # "none" => mutexOwner = t
    /\ \A t, u \in Threads, table \in Tables :
           t # u => ~(Reads(t, table) /\ Writes(u, table))

\* The holder of the mutex is inside a critical section that runs to its
\* release without waiting for anything.
HolderWillRelease ==
    \/ mutexOwner = "none"
    \/ mutexOwner = "D" /\ pc \in {"frh_body", "frh_return"}
    \/ mutexOwner \in Threads /\ admin[mutexOwner].step \in {"locked", "writing"}

\* C9: while a handler runs, the dispatching thread does not hold the mutex
\* taken by findRequestHandler (it holds it only inside an add, remove or
\* addRedirect that the handler itself calls) and calls the copy of the handler
\* that the lookup made, and whoever waits for the mutex waits for another
\* thread that is about to release it: no deadlock.
C9_HandlerOutsideLock ==
    /\ pc \in {"line93", "in_handler", "line99"} =>
           (mutexOwner = "D" => admin["D"].step \in {"locked", "writing"})
    /\ \A t \in Threads :
           admin[t].step = "lock" => (mutexOwner # t /\ HolderWillRelease)
    /\ pc \in {"line93", "in_handler"} =>
           (request_handler \in Handlers /\ request_handler = findRes.handler)

\* C9 witness: the running handler has called add, remove or addRedirect and
\* holds the mutex for it, while thread A waits for the mutex.
C9_Witness ==
    /\ pc = "in_handler"
    /\ mutexOwner = "D"
    /\ admin["D"].step = "writing"
    /\ admin["A"].step = "lock"

----------------------------------------------------------------------------
(* Further claims about the registry and the redirect table                *)

\* C11: with the empty key registered, find(R) returns a handler for every
\* resource R, also one that does not begin with '/': the handler of the empty
\* key whenever no longer registered key is a boundary prefix of R.
C11_EmptyKeyCatchesAll ==
    (findRes.called /\ S_empty \in DOMAIN m_resources) =>
        /\ findRes.found
        /\ MatchingKeys(findArg) \ {S_empty} = {} =>
               findRes.handler = m_resources[S_empty]

\* After a remove, a find answers from the keys that are left: the longest
\* boundary prefix among them, not found when there is none.
C15_FindFallsBack ==
    (lastOp.op = "remove" /\ findRes.called) =>
        /\ lastOp.key \notin DOMAIN m_resources
        /\ IF MatchingKeys(findArg) = {}
           THEN ~findRes.found /\ findRes.handler = NoHandler
           ELSE /\ findRes.found
                /\ findRes.handler = m_resources[LongestMatchingKey(findArg)]

\* C15: after remove(K) no handler is registered under the normalized key K
\* and every other entry is kept, so find falls back to the next-longest
\* matching prefix or to not found; a remove of a key that is not registered
\* (a second remove, or a key never added) leaves the registry unchanged.
C15_RemoveThenFallBack ==
    [][ /\ \A r \in RawResources :
               RemoveResource(r) =>
                   LET K == stripTrailingSlash(r)
                   IN  /\ K \notin DOMAIN m_resources'
                       /\ DOMAIN m_resources' = DOMAIN m_resources \ {K}
                       /\ \A j \in DOMAIN m_resources' :
                              m_resources'[j] = m_resources[j]
                       /\ K \notin DOMAIN m_resources =>
                              m_resources' = m_resources
        /\ C15_FindFallsBack' ]_vars

\* remove("/a/b") twice, then find("/a/b") falls back to the handler of "/a".
C15_Witness ==
    /\ prevOp.op = "remove" /\ prevOp.key = S_a_b
    /\ lastOp.op = "remove" /\ lastOp.key = S_a_b
    /\ S_a \in DOMAIN m_resources
    /\ findRes.called /\ findArg = S_a_b
    /\ findRes.found /\ findRes.handler = m_resources[S_a]

EndsWithSlash(s) == Len(s) > 0 /\ s[Len(s)] = Slash

\* C16: after any sequence of add, remove and add_redirect calls with any
\* argument strings, also strings ending in more than one '/', no key of the
\* registry and no key or target of the redirect table ends with '/'.
C16_NoTrailingSlashStored ==
    /\ \A k \in DOMAIN m_resources : ~EndsWithSlash(k)
    /\ \A k \in DOMAIN m_redirects :
           ~EndsWithSlash(k) /\ ~EndsWithSlash(m_redirects[k])

\* C19: add_redirect never replaces an entry: every entry of the redirect
\* table keeps its target across every step (there is no removal), and
\* add_redirect(F, T) with F already present leaves the first target in place.
C19_RedirectNeverReplaced ==
    [][ /\ \A k \in DOMAIN m_redirects :
               k \in DOMAIN m_redirects' /\ m_redirects'[k] = m_redirects[k]
        /\ \A f \in RawRedirectFrom, t \in RawRedirectTo :
               AddRedirect(f, t) =>
                   LET F == stripTrailingSlash(f)
                   IN  /\ F \in DOMAIN m_redirects'
                       /\ m_redirects'[F] =
                              IF F \in DOMAIN m_redirects THEN m_redirects[F]
                              ELSE stripTrailingSlash(t) ]_vars

\* add_redirect(F, T1); add_redirect(F, T2) with T1 # T2: F resolves to T1.
C19_Witness ==
    /\ prevOp.op = "redirect" /\ lastOp.op = "redirect"
    /\ prevOp.key = lastOp.key
    /\ prevOp.target # lastOp.target
    /\ MapFind(m_redirects, lastOp.key).second = prevOp.target

----------------------------------------------------------------------------
(* Further claims about handleRequest                                      *)

\* The request as the reader handed it over: the first event of the call.
FirstSeen == events[1]

\* The handler was found, was called and returned normally.
HandlerReturnedNormally ==
    Returned /\ \E i \in 1..Len(responses) : responses[i].by \in Handlers

\* C13: on the path where a handler is found and returns normally,
\* handleRequest itself neither calls connection.finish() nor changes the
\* lifecycle flag nor invokes an error responder: the one response is the
\* handler's.
C13_HandlerPathLeavesConnection ==
    HandlerReturnedNormally =>
        /\ conn.finished = 0
        /\ conn.lifecycle = FirstSeen.lifecycle
        /\ Count("set_lifecycle") = 0
        /\ Count("finish") = 0
        /\ Count("bad_request") = 0
        /\ Count("not_found") = 0
        /\ Count("server_error") = 0
        /\ Len(responses) = 1
        /\ responses[1].by = request_handler

\* C13 witness: a keep-alive connection is still keep-alive and not finished
\* when the handler has returned.
C13_Witness ==
    /\ HandlerReturnedNormally
    /\ FirstSeen.lifecycle = "KEEPALIVE"
    /\ conn.lifecycle = "KEEPALIVE"
    /\ conn.finished = 0
    /\ Count("handler") = 1

\* C14: the original resource never changes during dispatch: after any number
\* of redirect rewrites, the limit exceeded or not, the request's original
\* resource and the original resource every callee was handed equal the
\* resource first seen, while the current resource follows the redirects.
C14_OriginalResourceKept ==
    pc # "idle" =>
        /\ request.original_resource = FirstSeen.resource
        /\ \A i \in 1..Len(events) :
               events[i].original = FirstSeen.resource
        /\ (RedirectsOver /\ Count("change_resource") > 0) =>
               request.resource =
                   Target(m_redirects, stripTrailingSlash(FirstSeen.resource),
                          MAX_REDIRECTS)

\* C14 witness: a handler was called after two rewrites with the resource
\* rewritten and the original resource as first seen.
C14_Witness ==
    /\ Returned
    /\ Count("change_resource") >= 2
    /\ \E i \in 1..Len(events) :
           /\ events[i].e = "handler"
           /\ events[i].original = FirstSeen.resource
           /\ events[i].resource # events[i].original

\* C17: on every path through the error gate (error code set or request
\* invalid) the lifecycle flag is set to CLOSE before the bad-request handler
\* or connection.finish() is called, and no redirect resolution, no
\* authentication and no handler lookup is done for the request.
C17_GateClosesFirst ==
    (pc # "idle" /\ (ec.value # 0 \/ ~request.valid)) =>
        /\ pc \in {"line40", "line41", "line42", "done"}
        /\ Count("redirect_lookup") = 0
        /\ Count("change_resource") = 0
        /\ Count("auth") = 0
        /\ Count("find_handler") = 0
        /\ Count("handler") = 0
        /\ resource_requested = <<>>
        /\ request_handler = NoHandler
        /\ ~findRes.called
        /\ \A i \in 1..Len(events) :
               events[i].e \in {"bad_request", "finish"} =>
                   \E j \in 1..(i - 1) : events[j].e = "set_lifecycle"
        /\ pc \in {"line42", "done"} => conn.lifecycle = "CLOSE"
        /\ Returned => Count("bad_request") + Count("finish") = 1

\* C17 witness: an invalid request without error code on a keep-alive
\* connection was answered by finish() with the lifecycle set to CLOSE.
C17_Witness ==
    /\ Returned
    /\ ec.value = 0 /\ ~request.valid
    /\ FirstSeen.lifecycle = "KEEPALIVE"
    /\ conn.lifecycle = "CLOSE"
    /\ Count("set_lifecycle") = 1
    /\ Count("finish") = 1

\* No redirect entry matches the normalized resource first seen.
NoRedirectMatches ==
    stripTrailingSlash(FirstSeen.resource) \notin DOMAIN m_redirects

\* The resource the authenticator, the handler and the not-found handler
\* are to observe.
ObservedResource ==
    IF NoRedirectMatches THEN FirstSeen.resource
    ELSE Target(m_redirects, stripTrailingSlash(FirstSeen.resource),
                MAX_REDIRECTS)

\* C18: when no redirect entry matches the normalized requested resource the
\* request's resource stays exactly as received (a trailing '/' is stripped
\* in the local lookup key only), so the authenticator, the handler and the
\* not-found handler observe the un-normalized resource; when a redirect
\* applied they observe the final redirect target.
C18_ObservedResource ==
    PassedGate =>
        /\ NoRedirectMatches => request.resource = FirstSeen.resource
        /\ \A i \in 1..Len(events) :
               events[i].e \in {"auth", "handler", "not_found"} =>
                   events[i].resource = ObservedResource
        /\ \A i \in 1..Len(responses) :
               responses[i].by = "handleNotFoundRequest" =>
                   responses[i].resource = ObservedResource

\* C18 witness: "/a/" was requested, no redirect matched, and the handler
\* was called with "/a/" while the lookup key was "/a".
C18_Witness ==
    /\ Returned
    /\ FirstSeen.resource = S_a_
    /\ NoRedirectMatches
    /\ resource_requested = S_a
    /\ \E i \in 1..Len(events) :
           events[i].e = "handler" /\ events[i].resource = S_a_

\* text occurs in body as a run of consecutive words.
Contains(body, text) ==
    \E k \in 0..(Len(body) - Len(text)) :
        \A j \in 1..Len(text) : body[k + j] = text[j]

\* The redirect limit was exceeded and handleRequest has returned.
RedirectLimitAnswered == PassedGate /\ ~ShortChain /\ Returned

----------------------------------------------------------------------------
(* Claim about the reader                                                  *)

\* The completion callback was invoked at most once, and exactly once when
\* the reader is DONE.
C12_AtMostOnce ==
    /\ Count("call") <= 1
    /\ reader.callbacks = Count("call")
    /\ reader.state = "DONE" <=> Count("call") = 1
    /\ Count("call") = 1 =>
           /\ pc = "line40"
           /\ ec = OutcomeError(reader.outcome)
           /\ reader.outcome \in {"ok", "parse_err", "io_err", "timeout"}

\* C12: for every connection handed to handleConnection the reader invokes
\* its completion callback (handleRequest) exactly once under every
\* interleaving of read completions and timer expiry: never twice, also when
\* a timer expiry or a read completion arrives after DONE, and once in the end.
C12_CallbackExactlyOnce ==
    /\ []C12_AtMostOnce
    /\ reader.created ~> (reader.state = "DONE" /\ Count("call") = 1)

\* C12 witness: the message was read in two reads, the deadline of the second
\* passed while its completion was queued, and the late expiry was ignored
\* after the one callback.
C12_Witness ==
    /\ reader.state = "DONE"
    /\ reader.outcome = "ok"
    /\ reader.reads = MaxReads
    /\ reader.late_ignored
    /\ Count("call") = 1

\* C12 witness of the race won by the timer: the read was cancelled and the
\* callback was invoked once with the timeout.
C12_TimeoutReached ==
    /\ reader.state = "DONE"
    /\ reader.outcome = "timeout"
    /\ Count("call") = 1

====
